---- MODULE Spec2Model ----
(***************************************************************************)
(* A model of the PageRank calculator of pagerank-rs: the Table of         *)
(* src/src/table.rs (graph ingestion and the power iteration) and the      *)
(* program main of src/src/main.rs that drives it.                         *)
(*                                                                         *)
(* Vectors are 1-based sequences: the element the code calls v[i] is       *)
(* v[i + 1] here.  An f64 is modelled as an exact rational <<n, d>> in     *)
(* lowest terms with d > 0.  A string is a sequence of 1-character strings.*)
(***************************************************************************)
EXTENDS Integers, Sequences, FiniteSets, TLC

\* ------------------------------------------------------------ bounds
\* lines one read_file call reads at most
MaxLines == 3
\* passes of the solver loop that are followed, over all pagerank calls on one
\* ingested graph
MaxSteps == 3
\* a pass of the solver loop is followed from ranks with denominators up to
MaxDen == 250

\* ------------------------------------------------------------ rationals
Abs(x) == IF x < 0 THEN -x ELSE x

RECURSIVE Gcd(_, _)
Gcd(a, b) == IF b = 0 THEN a ELSE Gcd(b, a % b)

Rat(n, d) ==
    LET s == IF d < 0 THEN -1 ELSE 1
        g == Gcd(Abs(n), Abs(d))
    IN  <<(s * n) \div g, (s * d) \div g>>

Zero == <<0, 1>>
One == <<1, 1>>
FromInt(k) == <<k, 1>>

RAdd(x, y) ==
    LET g == Gcd(x[2], y[2])
    IN  Rat(x[1] * (y[2] \div g) + y[1] * (x[2] \div g), x[2] * (y[2] \div g))
RSub(x, y) == RAdd(x, <<-y[1], y[2]>>)
RMul(x, y) ==
    LET g1 == Gcd(Abs(x[1]), y[2])
        g2 == Gcd(Abs(y[1]), x[2])
    IN  Rat((x[1] \div g1) * (y[1] \div g2), (x[2] \div g2) * (y[2] \div g1))
RDiv(x, y) == RMul(x, Rat(y[2], y[1]))
RGt(x, y) == RSub(x, y)[1] > 0
RLe(x, y) == ~RGt(x, y)

RECURSIVE RSum(_)
RSum(s) == IF s = <<>> THEN Zero ELSE RAdd(RSum(SubSeq(s, 1, Len(s) - 1)), s[Len(s)])

\* ------------------------------------------------------------ strings
Digits == <<"0", "1", "2", "3", "4", "5", "6", "7", "8", "9">>
IsSpace(c) == c = " "

RECURSIVE TrimStart(_)
TrimStart(s) == IF s # <<>> /\ IsSpace(s[1]) THEN TrimStart(Tail(s)) ELSE s
RECURSIVE TrimEnd(_)
TrimEnd(s) ==
    IF s # <<>> /\ IsSpace(s[Len(s)]) THEN TrimEnd(SubSeq(s, 1, Len(s) - 1)) ELSE s
\* str::trim
Trim(s) == TrimEnd(TrimStart(s))

\* str::find: the (1-based) start of the first occurrence of d in s, 0 for None
Find(s, d) ==
    LET hits == {p \in 1..(Len(s) - Len(d) + 1) : SubSeq(s, p, p + Len(d) - 1) = d}
    IN  IF hits = {} THEN 0 ELSE CHOOSE p \in hits : \A q \in hits : p <= q

DigitVal(c) == (CHOOSE k \in 1..10 : Digits[k] = c) - 1
IsDigit(c) == \E k \in 1..10 : Digits[k] = c
RECURSIVE Decimal(_)
Decimal(s) == IF s = <<>> THEN 0 ELSE 10 * Decimal(SubSeq(s, 1, Len(s) - 1)) + DigitVal(s[Len(s)])
\* str::parse::<usize>: -1 stands for Err
Parse(s) ==
    LET body == IF s # <<>> /\ s[1] = "+" THEN Tail(s) ELSE s
    IN  IF body # <<>> /\ \A k \in 1..Len(body) : IsDigit(body[k]) THEN Decimal(body) ELSE -1

\* usize::to_string
RECURSIVE Format(_)
Format(k) == IF k < 10 THEN <<Digits[k + 1]>> ELSE Append(Format(k \div 10), Digits[(k % 10) + 1])

\* ------------------------------------------------------------ inputs
\* " => "
DEFAULT_DELIM == <<" ", "=", ">", " ">>
\* 0.85
DEFAULT_ALPHA == <<17, 20>>
\* 0.00001
DEFAULT_CONVERGENCE == <<1, 100000>>
DEFAULT_MAX_ITERATIONS == 10000
DEFAULT_NUMERIC == FALSE

\* the lines an input file is made of
InputLines ==
    { <<"0">> \o DEFAULT_DELIM \o <<"1">>,
      <<" ", "1", " ">> \o DEFAULT_DELIM \o <<" ", "0">>,
      <<"0">> \o DEFAULT_DELIM \o <<"0">>,
      <<"a">> \o DEFAULT_DELIM \o <<"0">>,
      <<"0", "=", ">", "1">> }

\* the values a client passes to set_alpha, set_convergence
Alphas == {<<0, 1>>, <<1, 2>>}
Convergences == {<<-1, 1>>, <<1, 100000>>}
\* ... to set_max_iterations, set_num_rows
MaxIterations == {0, 1, 2}
NumRows == {1, 3}

\* ------------------------------------------------------------ state
VARIABLES
    alpha, convergence, max_iterations, delim, numeric,   \* Table: parameters
    num_outgoing, rows, nodes_to_idx, idx_to_nodes, pr,   \* Table: graph and ranks
    diff, num_iterations, old_pr,   \* locals of pagerank, kept until the next call
    pc,        \* the call in progress: "idle", "reading", "loop", "panicked"
    result,    \* how the last completed call of the Table ended
    consumed,  \* the lines the current (or last) read_file call has read
    steps,     \* passes of the solver loop made since the last reset
    rerun,     \* the last pagerank call started right after a completed one
    last_pr,   \* pr as it was when the last pagerank call started
    mpc, cli   \* main: its position and its parsed command line

params == <<alpha, convergence, max_iterations, delim, numeric>>
graph == <<num_outgoing, rows, nodes_to_idx, idx_to_nodes>>
locals == <<diff, num_iterations, old_pr>>
history == <<consumed, steps, rerun, last_pr>>
mvars == <<mpc, cli>>
vars == <<params, graph, pr, locals, pc, result, history, mvars>>

\* ------------------------------------------------------------ Table helpers
\* Vec::resize / Vec::resize_with
Resize(v, n, fill) ==
    IF n <= Len(v) THEN SubSeq(v, 1, n) ELSE v \o [k \in 1..(n - Len(v)) |-> fill]

\* Table::insert_into_vector: the vector afterwards and the value returned
insert_into_vector(v, t) ==
    LET greater == {k \in 1..Len(v) : v[k] > t}
        i == IF greater = {} THEN Len(v)
             ELSE (CHOOSE k \in greater : \A q \in greater : k <= q) - 1
    IN  IF i = Len(v)
        THEN [vec |-> Append(v, t), ret |-> TRUE]
        ELSE [vec |-> SubSeq(v, 1, i) \o <<t>> \o SubSeq(v, i + 1, Len(v)), ret |-> FALSE]

\* insert_mapping without the lookup of the key: a name seen again is mapped anew
insert_mapping_anew(m, key) ==
    LET idx == Cardinality(DOMAIN m.i2n)
    IN  [n2i |-> [k \in DOMAIN m.n2i \cup {key} |-> IF k = key THEN idx ELSE m.n2i[k]],
         i2n |-> [j \in DOMAIN m.i2n \cup {idx} |-> IF j = idx THEN key ELSE m.i2n[j]],
         idx |-> idx]

\* Table::insert_mapping on the maps m = [n2i, i2n]: the maps afterwards and the index
insert_mapping(m, key) ==
    IF key \in DOMAIN m.n2i
    THEN [n2i |-> m.n2i, i2n |-> m.i2n, idx |-> m.n2i[key]]
    ELSE LET idx == Cardinality(DOMAIN m.n2i)
         IN  [n2i |-> [k \in DOMAIN m.n2i \cup {key} |-> IF k = key THEN idx ELSE m.n2i[k]],
              i2n |-> [j \in DOMAIN m.i2n \cup {idx} |-> IF j = idx THEN key ELSE m.i2n[j]],
              idx |-> idx]

\* Table::add_arc on (rows r, num_outgoing n): both afterwards and the value returned
add_arc(r, n, from, to) ==
    LET max_dim == IF from > to THEN from ELSE to
        grow == Len(r) <= max_dim
        r1 == IF grow THEN Resize(r, max_dim + 1, <<>>) ELSE r
        n1 == IF grow /\ Len(n) <= max_dim + 1 THEN Resize(n, max_dim + 1, 0) ELSE n
        ins == insert_into_vector(r1[to + 1], from)
        r2 == [r1 EXCEPT ![to + 1] = ins.vec]
        n2 == IF ins.ret THEN [n1 EXCEPT ![from + 1] = @ + 1] ELSE n1
    IN  [rows |-> r2, num_outgoing |-> n2, ret |-> ins.ret]

\* read_file, lines 172-190: the two trimmed tokens of a line, <<>> when the
\* delimiter does not occur in it
Tokens(line, d) ==
    LET pos == Find(line, d)
    IN  IF pos = 0 THEN <<>>
        ELSE <<Trim(SubSeq(line, 1, pos - 1)), Trim(SubSeq(line, pos + Len(d), Len(line)))>>


\* ------------------------------------------------------------ setters
\* the locals of pagerank are gone, and what is remembered of the last pagerank
\* call is forgotten, once read_file is called
Forget ==
    /\ diff' = One
    /\ num_iterations' = 0
    /\ old_pr' = <<>>
    /\ rerun' = FALSE
    /\ last_pr' = <<>>

\* what every setter leaves alone; a setter is a completed call of the Table
Setter ==
    /\ pc = "idle"
    /\ result' = "set"
    /\ UNCHANGED <<graph, pr, locals, pc, history>>

set_alpha(a) ==
    Setter /\ alpha' = a /\ UNCHANGED <<convergence, max_iterations, delim, numeric>>
set_convergence(c) ==
    Setter /\ convergence' = c /\ UNCHANGED <<alpha, max_iterations, delim, numeric>>
set_max_iterations(i) ==
    Setter /\ max_iterations' = i /\ UNCHANGED <<alpha, convergence, delim, numeric>>
set_numeric(n) ==
    Setter /\ numeric' = n /\ UNCHANGED <<alpha, convergence, max_iterations, delim>>
set_delim(d) ==
    Setter /\ delim' = d /\ UNCHANGED <<alpha, convergence, max_iterations, numeric>>

set_num_rows(num_rows) ==
    /\ pc = "idle"
    /\ result' = "set"
    /\ num_outgoing' = Resize(num_outgoing, num_rows, 0)
    /\ rows' = Resize(rows, num_rows, <<>>)
    /\ UNCHANGED <<params, nodes_to_idx, idx_to_nodes, pr, locals, pc, history>>

\* ------------------------------------------------------------ read_file
\* Table::reset
reset ==
    /\ num_outgoing' = <<>>
    /\ rows' = <<>>
    /\ nodes_to_idx' = <<>>
    /\ idx_to_nodes' = <<>>
    /\ pr' = <<>>

\* read_file up to its loop: reset(), then File::open, which succeeds (opened) or
\* makes read_file return the error
read_file(opened) ==
    /\ pc = "idle"
    /\ reset
    /\ consumed' = <<>>
    /\ IF opened THEN pc' = "reading" /\ result' = "none"
                 ELSE pc' = "idle" /\ result' = "read_err"
    /\ Forget
    /\ steps' = 0
    /\ UNCHANGED params

\* the indices of the two tokens of a line and the maps afterwards; idx -1 where
\* parse().unwrap() panics
Resolve(tok) ==
    IF numeric
    THEN [from_idx |-> Parse(tok[1]), to_idx |-> Parse(tok[2]),
          n2i |-> nodes_to_idx, i2n |-> idx_to_nodes]
    ELSE LET f == insert_mapping([n2i |-> nodes_to_idx, i2n |-> idx_to_nodes], tok[1])
             t == insert_mapping([n2i |-> f.n2i, i2n |-> f.i2n], tok[2])
         IN  [from_idx |-> f.idx, to_idx |-> t.idx, n2i |-> t.n2i, i2n |-> t.i2n]

\* one pass of the loop of read_file over a line that was read
ReadLine(line) ==
    /\ pc = "reading"
    /\ Len(consumed) < MaxLines
    /\ consumed' = Append(consumed, line)
    /\ LET tok == Tokens(line, delim)
       IN  IF tok = <<>>
           THEN UNCHANGED <<graph, pc, result>>
           ELSE LET r == Resolve(tok)
                IN  IF r.from_idx < 0 \/ r.to_idx < 0
                    THEN /\ pc' = "panicked"
                         /\ result' = "panic"
                         /\ UNCHANGED graph
                    ELSE LET a == add_arc(rows, num_outgoing, r.from_idx, r.to_idx)
                         IN  /\ rows' = a.rows
                             /\ num_outgoing' = a.num_outgoing
                             /\ nodes_to_idx' = r.n2i
                             /\ idx_to_nodes' = r.i2n
                             /\ UNCHANGED <<pc, result>>
    /\ UNCHANGED <<params, pr, locals, steps, rerun, last_pr, mvars>>

\* a line that cannot be read: line_result? returns the error
ReadLineErr ==
    /\ pc = "reading"
    /\ pc' = "idle"
    /\ result' = "read_err"
    /\ UNCHANGED <<params, graph, pr, locals, history, mvars>>

\* the end of the file: the rest of read_file
ReadEof ==
    /\ pc = "reading"
    /\ nodes_to_idx' = <<>>
    /\ pc' = "idle"
    /\ result' = "read_ok"
    /\ UNCHANGED <<params, num_outgoing, rows, idx_to_nodes, pr, locals, history, mvars>>

\* ------------------------------------------------------------ pagerank
\* pagerank up to its loop
pagerank ==
    /\ pc = "idle"
    /\ rerun' = (result = "pr_done")
    /\ last_pr' = pr
    /\ diff' = One
    /\ num_iterations' = 0
    /\ old_pr' = <<>>
    /\ IF Len(rows) = 0
       THEN pc' = "idle" /\ result' = "pr_empty" /\ pr' = pr
       ELSE /\ pr' = [Resize(pr, Len(rows), Zero) EXCEPT ![1] = One]
            /\ pc' = "loop"
            /\ result' = "none"
    /\ UNCHANGED <<params, graph, consumed, steps>>

\* the loop condition with || for &&
LoopGuardOr == RGt(diff, convergence) \/ num_iterations < max_iterations
\* the loop condition with <= for <
LoopGuardOffByOne == RGt(diff, convergence) /\ num_iterations <= max_iterations

\* the condition of the while loop
LoopGuard == RGt(diff, convergence) /\ num_iterations < max_iterations

\* sum_pr and dangling_pr, lines 231-239
SumPr == RSum(pr)
DanglingPr == RSum([k \in 1..Len(pr) |-> IF num_outgoing[k] = 0 THEN pr[k] ELSE Zero])

\* old_pr, lines 241-250
OldPr ==
    IF num_iterations = 0 THEN pr ELSE [i \in 1..Len(pr) |-> RDiv(pr[i], SumPr)]

\* h of row i (1-based), lines 266-279
H(i, old) ==
    RMul(alpha,
         RSum([j \in 1..Len(rows[i]) |->
                  LET ci == rows[i][j] + 1
                      h_v == IF num_outgoing[ci] # 0 THEN <<1, num_outgoing[ci]>> ELSE Zero
                  IN  RMul(h_v, old[ci])]))

\* pr after the body of the loop, lines 252-280
NewPr(old) ==
    LET num_rows == Len(rows)
        one_Av == RDiv(RMul(alpha, DanglingPr), FromInt(num_rows))
        one_Iv == RDiv(RMul(RSub(One, alpha), One), FromInt(num_rows))
    IN  [i \in 1..num_rows |-> RAdd(RAdd(H(i, old), one_Av), one_Iv)]

\* diff after the body of the loop, lines 281-286
NewDiff(new, old) ==
    RSum([i \in 1..Len(new) |->
             IF RGt(new[i], old[i]) THEN RSub(new[i], old[i]) ELSE RSub(old[i], new[i])])

\* a row names a vertex beyond num_outgoing (set_num_rows has cut the vectors
\* shorter): self.num_outgoing[*ci] at line 268 panics
OutOfBounds ==
    \E i \in 1..Len(rows) : \E j \in 1..Len(rows[i]) : rows[i][j] + 1 > Len(num_outgoing)

\* one pass of the while loop; the Table is not observed after a panic
PagerankIterate ==
    /\ pc = "loop"
    /\ LoopGuard
    /\ steps < MaxSteps
    /\ \A i \in 1..Len(pr) : pr[i][2] <= MaxDen
    /\ IF OutOfBounds
       THEN /\ pc' = "panicked"
            /\ result' = "panic"
            /\ UNCHANGED <<pr, locals, steps>>
       ELSE /\ old_pr' = OldPr
            /\ pr' = NewPr(old_pr')
            /\ diff' = NewDiff(pr', old_pr')
            /\ num_iterations' = num_iterations + 1
            /\ steps' = steps + 1
            /\ UNCHANGED <<pc, result>>
    /\ UNCHANGED <<params, graph, consumed, rerun, last_pr, mvars>>

\* the loop ends and pagerank returns
PagerankExit ==
    /\ pc = "loop"
    /\ ~LoopGuard
    /\ pc' = "idle"
    /\ result' = "pr_done"
    /\ UNCHANGED <<params, graph, pr, locals, history, mvars>>

\* Table::get_node_name
get_node_name(index) == IF numeric THEN Format(index) ELSE idx_to_nodes[index]

\* ------------------------------------------------------------ a client of the Table
\* The client sets the parameters and the number of rows before it first reads or
\* solves, as main does.
Configuring == mpc = "api" /\ result \in {"none", "set"}
ApiSetAlpha == Configuring /\ (\E a \in Alphas : set_alpha(a)) /\ UNCHANGED mvars
ApiSetConvergence ==
    Configuring /\ (\E c \in Convergences : set_convergence(c)) /\ UNCHANGED mvars
ApiSetMaxIterations ==
    Configuring /\ (\E i \in MaxIterations : set_max_iterations(i)) /\ UNCHANGED mvars
ApiSetNumeric == Configuring /\ (\E n \in BOOLEAN : set_numeric(n)) /\ UNCHANGED mvars
ApiSetNumRows == Configuring /\ (\E n \in NumRows : set_num_rows(n)) /\ UNCHANGED mvars
ApiReadFile == mpc = "api" /\ (\E opened \in BOOLEAN : read_file(opened)) /\ UNCHANGED mvars
ReadAnyLine == \E line \in InputLines : ReadLine(line)
ApiPagerank == mpc = "api" /\ pagerank /\ UNCHANGED mvars

\* Table::new (Default)
NewTable ==
    /\ alpha = DEFAULT_ALPHA
    /\ convergence = DEFAULT_CONVERGENCE
    /\ max_iterations = DEFAULT_MAX_ITERATIONS
    /\ delim = DEFAULT_DELIM
    /\ numeric = DEFAULT_NUMERIC
    /\ num_outgoing = <<>>
    /\ rows = <<>>
    /\ nodes_to_idx = <<>>
    /\ idx_to_nodes = <<>>
    /\ pr = <<>>
    /\ diff = One
    /\ num_iterations = 0
    /\ old_pr = <<>>
    /\ pc = "idle"
    /\ result = "none"
    /\ consumed = <<>>
    /\ steps = 0
    /\ rerun = FALSE
    /\ last_pr = <<>>

NoCli == [alpha |-> DEFAULT_ALPHA, convergence |-> DEFAULT_CONVERGENCE, size |-> 0,
          max_iterations |-> DEFAULT_MAX_ITERATIONS, n |-> DEFAULT_NUMERIC,
          delim |-> DEFAULT_DELIM]

Init == NewTable /\ mpc = "api" /\ cli = NoCli

Next ==
    \/ ApiSetAlpha
    \/ ApiSetConvergence
    \/ ApiSetMaxIterations
    \/ ApiSetNumeric
    \/ ApiSetNumRows
    \/ ApiReadFile
    \/ ReadAnyLine
    \/ ReadLineErr
    \/ ReadEof
    \/ ApiPagerank
    \/ PagerankIterate
    \/ PagerankExit

Spec == Init /\ [][Next]_vars

\* ------------------------------------------------------------ main
\* the command lines main is run with (struct Cli; trace and the file name left out)
CliArgs ==
    [alpha : {<<0, 1>>, <<1, 2>>, <<1, 1>>},
     convergence : {<<0, 1>>, <<-1, 1>>, <<1, 100000>>},
     size : {0, 1, 2},
     max_iterations : {0, 1, 2},
     n : BOOLEAN,
     delim : {DEFAULT_DELIM, <<"=", ">">>}]

\* lines 51-53
MainNumeric ==
    /\ mpc = "numeric"
    /\ IF cli.n THEN set_numeric(TRUE) ELSE UNCHANGED <<params, graph, pr, locals, pc, result, history>>
    /\ mpc' = "alpha"
    /\ cli' = cli

\* lines 55-60
MainAlpha ==
    /\ mpc = "alpha"
    /\ IF RGt(Zero, cli.alpha) \/ RLe(One, cli.alpha)
       THEN mpc' = "exit1" /\ UNCHANGED <<params, graph, pr, locals, pc, result, history>>
       ELSE mpc' = "convergence" /\ set_alpha(cli.alpha)
    /\ cli' = cli

\* lines 62-67
MainConvergence ==
    /\ mpc = "convergence"
    /\ IF cli.convergence = Zero
       THEN mpc' = "exit1" /\ UNCHANGED <<params, graph, pr, locals, pc, result, history>>
       ELSE mpc' = "size" /\ set_convergence(cli.convergence)
    /\ cli' = cli

\* lines 69-74
MainSize ==
    /\ mpc = "size"
    /\ IF cli.size = 0
       THEN mpc' = "exit1" /\ UNCHANGED <<params, graph, pr, locals, pc, result, history>>
       ELSE mpc' = "iterations" /\ set_num_rows(cli.size)
    /\ cli' = cli

\* lines 76-80: the value is checked and then dropped
MainIterations ==
    /\ mpc = "iterations"
    /\ mpc' = IF cli.max_iterations = 0 THEN "exit1" ELSE "delim"
    /\ UNCHANGED <<params, graph, pr, locals, pc, result, history, cli>>

\* lines 82-83
MainDelim ==
    /\ mpc = "delim"
    /\ set_delim(cli.delim)
    /\ mpc' = "read_file"
    /\ cli' = cli

\* line 90, the call
MainReadFile ==
    /\ mpc = "read_file"
    /\ \E opened \in BOOLEAN : read_file(opened)
    /\ mpc' = "unwrap"
    /\ cli' = cli

\* line 90, unwrap() of what read_file returned
MainUnwrap ==
    /\ mpc = "unwrap"
    /\ pc = "idle"
    /\ mpc' = IF result = "read_err" THEN "panicked" ELSE "pagerank"
    /\ UNCHANGED <<params, graph, pr, locals, pc, result, history, cli>>

\* line 93, the call
MainPagerank ==
    /\ mpc = "pagerank"
    /\ pagerank
    /\ mpc' = "print"
    /\ cli' = cli

\* lines 94-95, once pagerank has returned
MainDone ==
    /\ mpc = "print"
    /\ pc = "idle"
    /\ mpc' = "done"
    /\ UNCHANGED <<params, graph, pr, locals, pc, result, history, cli>>

MainInit == NewTable /\ mpc = "numeric" /\ cli \in CliArgs

MainNext ==
    \/ MainNumeric
    \/ MainAlpha
    \/ MainConvergence
    \/ MainSize
    \/ MainIterations
    \/ MainDelim
    \/ MainReadFile
    \/ ReadAnyLine
    \/ ReadLineErr
    \/ ReadEof
    \/ MainUnwrap
    \/ MainPagerank
    \/ PagerankIterate
    \/ PagerankExit
    \/ MainDone

MainSpec == MainInit /\ [][MainNext]_vars

\* ------------------------------------------------------------ properties
\* the store holds what add_arc made of the lines read since the last reset
Ingesting == pc = "reading" \/ result = "read_ok"
\* a pagerank call has made at least one pass of its loop
Iterated == (pc = "loop" \/ result = "pr_done") /\ num_iterations >= 1
\* the tokens of the lines read, in the order read_file meets them
RECURSIVE TokensOf(_)
TokensOf(lines) ==
    IF lines = <<>> THEN <<>>
    ELSE TokensOf(SubSeq(lines, 1, Len(lines) - 1)) \o Tokens(lines[Len(lines)], delim)
\* a sequence without the later occurrences of its elements
RECURSIVE FirstSeen(_)
FirstSeen(seq) ==
    IF seq = <<>> THEN <<>>
    ELSE LET init == FirstSeen(SubSeq(seq, 1, Len(seq) - 1))
             last == seq[Len(seq)]
         IN  IF \E k \in 1..Len(init) : init[k] = last THEN init ELSE Append(init, last)
\* the rows u occurs in
RowsWith(u) == {v \in 1..Len(rows) : \E j \in 1..Len(rows[v]) : rows[v][j] = u}

\* C1: every rows[v] is in ascending order and holds no entry twice.
RowsSortedDeduplicated ==
    \A v \in 1..Len(rows) : \A j \in 1..(Len(rows[v]) - 1) : rows[v][j] < rows[v][j + 1]

\* C2: while and after the edges are fed to a freshly reset store, out_degree[u]
\* is the number of rows u occurs in, for every vertex u.
OutDegreeCountsRows ==
    Ingesting =>
        \A u \in 1..Len(num_outgoing) : num_outgoing[u] = Cardinality(RowsWith(u - 1))

\* C3: the solver loop never makes more than max_iterations passes, every pass
\* adds one to the count of passes (so the loop ends), diff is never negative,
\* and when the loop has ended either diff <= convergence or the count of passes
\* equals max_iterations.
SolverLoopBounded ==
    /\ [](/\ (pc = "loop" \/ result = "pr_done") =>
               /\ num_iterations <= max_iterations
               /\ RLe(Zero, diff)
          /\ result = "pr_done" =>
               RLe(diff, convergence) \/ num_iterations = max_iterations)
    /\ [][pc = "loop" /\ pc' = "loop" =>
            /\ num_iterations' = num_iterations + 1
            /\ max_iterations - num_iterations' < max_iterations - num_iterations
            /\ max_iterations - num_iterations' >= 0]_vars
\* the loop has ended by convergence after two passes, short of the cap
SolverConverged ==
    /\ result = "pr_done"
    /\ num_iterations = 2
    /\ num_iterations < max_iterations
    /\ RLe(diff, convergence)

\* C4: after each completed pass of the solver loop of a pagerank call that
\* started from a fresh rank vector, the entries of pr sum to 1.
RankSumIsOne == Iterated /\ ~rerun => SumPr = One

\* C5: a pagerank call made right after a completed pagerank call, with nothing
\* in between, ends with the rank vector the earlier call ended with.
RerunSameRanks == result = "pr_done" /\ rerun => pr = last_pr

\* C7 as claimed: with a negative convergence threshold the loop ends after
\* exactly one pass, for every max_iterations >= 1.
NegativeThresholdOnePass ==
    result = "pr_done" /\ RGt(Zero, convergence) /\ max_iterations >= 1 => num_iterations = 1
\* C7 as amended: with a negative convergence threshold the loop never ends by
\* convergence: it ends after exactly max_iterations passes.
NegativeThresholdAllPasses ==
    result = "pr_done" /\ RGt(Zero, convergence) => num_iterations = max_iterations
\* the loop has ended after two passes under a negative threshold
NegativeThresholdTwoPasses ==
    result = "pr_done" /\ RGt(Zero, convergence) /\ num_iterations = 2

\* C8: when read_file has returned an error the store holds no graph.
NoPartialGraphOnError ==
    result = "read_err" =>
        /\ rows = <<>>
        /\ num_outgoing = <<>>
        /\ nodes_to_idx = <<>>
        /\ idx_to_nodes = <<>>

\* C9: in named mode the distinct names read so far have the indices 0, 1, ...,
\* n-1 in the order of their first appearance, the forward map gives every name
\* that index while the file is read, the vertex count is n, and get_node_name(i)
\* is the name that was given i, for every i < n.
NamesIndexedInFirstSeenOrder ==
    ~numeric /\ Ingesting =>
        LET names == FirstSeen(TokensOf(consumed))
            n == Len(names)
        IN  /\ Len(rows) = n
            /\ DOMAIN idx_to_nodes = 0..(n - 1)
            /\ \A i \in 0..(n - 1) : get_node_name(i) = names[i + 1]
            /\ pc = "reading" =>
                  /\ DOMAIN nodes_to_idx = {names[k] : k \in 1..n}
                  /\ \A i \in 0..(n - 1) : nodes_to_idx[names[i + 1]] = i
\* a file with three names, one of them met again, has been read in named mode
NamesRepeated ==
    /\ ~numeric
    /\ result = "read_ok"
    /\ Len(FirstSeen(TokensOf(consumed))) = 3
    /\ Len(TokensOf(consumed)) > 3

\* C6: main run with a row-count hint of 1 on a file without edges ends with a
\* rank vector of exactly one entry, 1.
IsolatedVertexRanked ==
    (mpc = "done" /\ cli.size = 1 /\ TokensOf(consumed) = <<>>) => pr = <<One>>

\* C10: main run with max_iterations = m makes at most m passes of the solver loop.
IterationCapIsConfigured == num_iterations <= cli.max_iterations
====
